---- MODULE Spec2Model ----
(***************************************************************************)
(* Order lifecycle and wallet ledger of the shop backend (src/server.js,   *)
(* latest revision: lines 1100 onward).  One action per HTTP endpoint or   *)
(* operator bot handler; each action is the whole handler, with the        *)
(* database transaction it runs applied in one step.                       *)
(***************************************************************************)
EXTENDS Integers, Sequences, FiniteSets, TLC

----------------------------------------------------------------------------
(* Bounds of the model *)

OrderTotal == 2
MaxLedger == 4
MaxAttempts == 3
MaxDeposit == 2
MaxSwap == 1
MaxRate == 1

(* Program constants *)

LockoutAttempts == 2
MaxAddBalance == 1000000

----------------------------------------------------------------------------
(* Value domains *)

NULL == "NULL"
NoUser == "NULL"
OrderIds == {"o1"}
Users == {"u1"}
UserIdInputs == Users \cup {"u9"}
Codes == {"1234", "9999"}
Emails == {"a@b.c"}

\* a nullable INTEGER column or a parseInt result: <<>> is NULL / NaN
NoAmount == <<>>
Amount(n) == <<n>>
IsAmount(a) == a # NoAmount
Val(a) == a[1]

RefundInputs == (0 - 1)..(OrderTotal + 1)
DepositInputs == 0..MaxDeposit
SwapInputs == (0 - 1)..MaxSwap
RateInputs == 1..MaxRate

Min(a, b) == IF a <= b THEN a ELSE b
Max(a, b) == IF a >= b THEN a ELSE b
Abs(a) == IF a < 0 THEN 0 - a ELSE a

\* text of an operator chat message: optional sign, leading digits, trailing junk
NoDigits == <<>>
Texts == [neg : BOOLEAN, digits : {NoDigits} \cup {Amount(n) : n \in 0..(OrderTotal + 1)}, junk : BOOLEAN]

\* JavaScript parseInt: the leading integer of the text, NaN when there is none
parseInt(t) ==
  IF t.digits = NoDigits THEN NoAmount
  ELSE Amount(IF t.neg THEN 0 - Val(t.digits) ELSE Val(t.digits))

----------------------------------------------------------------------------
VARIABLES orders, wallets, ledger, userStates, chat, tx, last

vars == <<orders, wallets, ledger, userStates, chat, tx, last>>

\* a row of table orders as INSERTed by create-order with the column defaults
NewOrder(uid) ==
  [user_id |-> uid, total |-> OrderTotal, email |-> NULL, code |-> NULL,
   code_requested |-> FALSE, wrong_code_attempts |-> 0,
   payment_status |-> "pending", status |-> "new", refund_amount |-> NoAmount]

\* a row of table wallets as INSERTed by the handlers
NewWallet == [balance |-> 0, frozen_balance |-> 0, available_balance |-> 0]

\* a row of table wallet_transactions; spent, remaining and paid are the metadata keys of the same names (0 when absent)
Entry(u, t, a, o, s, r) ==
  [user_id |-> u, type |-> t, amount |-> a, order_id |-> o,
   spent |-> s, remaining |-> r, paid |-> 0]

Exists(oid) == oid \in DOMAIN orders
HasWallet(u) == u \in DOMAIN wallets

\* UPDATE orders SET ... WHERE order_id = oid (no row: nothing changes)
UpdateOrder(oid, row) ==
  IF Exists(oid) THEN [orders EXCEPT ![oid] = row] ELSE orders

\* INSERT INTO wallets ... ON CONFLICT (user_id) DO NOTHING
EnsureWallet(w, u) ==
  IF u \in DOMAIN w THEN w ELSE [x \in DOMAIN w \cup {u} |-> IF x = u THEN NewWallet ELSE w[x]]

\* outcome reported to the caller; fault names the statement that threw, if any
Reply(op, res) == [op |-> op, res |-> res, fault |-> "none"]

\* outcome of a handler that ended in its catch block
Failure(op, fault) == [op |-> op, res |-> "error", fault |-> fault]

\* chat: the callback buttons that messages of the operator chat carry, as
\* <<callback, order id>>; a message stays in the chat with its buttons
\* userStates[chatId] of the operator chat: no entry, or the refund wizard
NoState == [action |-> "none", orderId |-> NULL, userId |-> NoUser, orderTotal |-> 0]

\* database transactions that can be open at the same time, one per pooled client
TxIds == {"t1", "t2"}

\* tx[t] of a client with no open transaction; of an open one: the handler
\* that ran BEGIN, the number of its row-locking statements already executed,
\* its order, account and amount, and the debt rows its SELECT returned
NoTx == [op |-> "none", pc |-> 0, oid |-> NULL, uid |-> NoUser, amount |-> 0, seen |-> <<>>]

Init ==
  /\ orders = [o \in {} |-> NewOrder(NoUser)]
  /\ wallets = [u \in {} |-> NewWallet]
  /\ ledger = <<>>
  /\ userStates = NoState
  /\ chat = {}
  /\ tx = [t \in TxIds |-> NoTx]
  /\ last = Reply("init", "ok")

----------------------------------------------------------------------------
(* Customer endpoints *)

\* POST /api/create-order
CreateOrder(oid, uid) ==
  /\ ~Exists(oid)
  /\ orders' = [x \in DOMAIN orders \cup {oid} |-> IF x = oid THEN NewOrder(uid) ELSE orders[x]]
  /\ last' = Reply("create_order", "ok")
  /\ UNCHANGED <<wallets, ledger, userStates, chat, tx>>

SetEmail(e, o) == [o EXCEPT !.email = e, !.status = "waiting_code_request"]

\* POST /api/save-email
SaveEmail(oid, e) ==
  /\ orders' = UpdateOrder(oid, SetEmail(e, orders[oid]))
  /\ last' = Reply("save_email", "ok")
  /\ UNCHANGED <<wallets, ledger, userStates, chat, tx>>

SetCode(c, o) == [o EXCEPT !.code = c, !.status = "waiting"]

\* mutation of Lockout: the third rejection locks, not the second
Lockout_late(o) == o.wrong_code_attempts > LockoutAttempts

\* the lockout test of verify-code: wrongAttempts >= 2
Lockout(o) == o.wrong_code_attempts >= LockoutAttempts

\* POST /api/verify-code
VerifyCode(oid, c) ==
  /\ IF ~Exists(oid)
       THEN /\ last' = Reply("verify_code", "not_found")
            /\ UNCHANGED orders
       ELSE IF Lockout(orders[oid])
         THEN /\ last' = Reply("verify_code", "support_needed")
              /\ UNCHANGED orders
         ELSE /\ orders' = UpdateOrder(oid, SetCode(c, orders[oid]))
              /\ last' = Reply("verify_code", "waiting")
  /\ UNCHANGED <<wallets, ledger, userStates, chat, tx>>

\* POST /api/verify-code when the operator notification sent after the UPDATE
\* throws: the catch block answers 500
VerifyCodeNotifyFails(oid, c) ==
  /\ Exists(oid)
  /\ ~Lockout(orders[oid])
  /\ orders' = UpdateOrder(oid, SetCode(c, orders[oid]))
  /\ last' = Failure("verify_code", "notify_admin")
  /\ UNCHANGED <<wallets, ledger, userStates, chat, tx>>

----------------------------------------------------------------------------
(* Payment gateway callback *)

\* the shared secret of shop and gateway, and what a sender may use in its place
BILEE_PASSWORD == "secret"
Passwords == {BILEE_PASSWORD, "guess"}

PaymentIds == {"p1"}
WebhookOrderIds == OrderIds \cup {"o9"}
WebhookStatuses == {"confirmed", "failed"}

\* SHA-256 hex digest, taken as collision free
sha256(s) == <<"sha256", s>>

\* a body without the signature key
NoSignature == <<>>

\* the values of the keys of data and of password, without metadata and
\* signature, in the order of the sorted keys (id, order_id, password, status),
\* joined without separator and hashed
generateSignature(data, password) ==
  sha256(data.id \o data.order_id \o password \o data.status)

\* mutation of validateSignature: a body that carries no signature is accepted
validateSignature_unsigned(body, password) ==
  generateSignature(body, password) = body.signature \/ body.signature = NoSignature

validateSignature(body, password) ==
  generateSignature(body, password) = body.signature

\* the callbacks a sender can post: any fields, with no signature or with the
\* digest of some fields under some password
WebhookBodies ==
  {[id |-> d.id, order_id |-> d.order_id, status |-> d.status, signature |-> sig] :
     d \in [id : PaymentIds, order_id : WebhookOrderIds, status : WebhookStatuses],
     sig \in {NoSignature}
             \cup {generateSignature(e, pw) :
                     e \in [id : PaymentIds, order_id : WebhookOrderIds, status : WebhookStatuses],
                     pw \in Passwords}}

\* outcome of a callback, with the body it carried and the payment_status the
\* order had when it arrived
WebhookReply(res, body) ==
  [op |-> "bilee_webhook", res |-> res, fault |-> "none", body |-> body,
   was |-> IF Exists(body.order_id) THEN orders[body.order_id].payment_status ELSE NULL]

\* mutation of ConfirmPayment, the first revision: the order status is set as well
ConfirmPayment_first(o) == [o EXCEPT !.payment_status = "confirmed", !.status = "confirmed"]

\* mutation of ConfirmPayment: the submitted code is dropped
ConfirmPayment_clears(o) == [o EXCEPT !.payment_status = "confirmed", !.code = NULL]

\* UPDATE orders SET payment_status = 'confirmed'
ConfirmPayment(o) == [o EXCEPT !.payment_status = "confirmed"]

\* POST /api/bilee-webhook
BileeWebhook(body) ==
  /\ IF ~validateSignature(body, BILEE_PASSWORD)
       THEN /\ last' = WebhookReply("invalid_signature", body)
            /\ UNCHANGED orders
       ELSE /\ last' = WebhookReply("ok", body)
            /\ IF body.status = "confirmed"
                 THEN orders' = UpdateOrder(body.order_id, ConfirmPayment(orders[body.order_id]))
                 ELSE UNCHANGED orders
  /\ UNCHANGED <<wallets, ledger, userStates, chat, tx>>

----------------------------------------------------------------------------
(* Operator bot: code exchange and completion *)

\* the condition under which the order details offer the request-code button
OffersRequestCode(o) ==
  /\ o.email # NULL
  /\ ~o.code_requested
  /\ o.status # "completed"
  /\ o.code = NULL
  /\ o.status = "waiting_code_request"

\* callback order_detail: renders the order with its keyboard; writes nothing
showOrderDetails(oid) ==
  /\ IF ~Exists(oid)
       THEN /\ last' = Reply("order_detail", "not_found")
            /\ UNCHANGED <<chat, tx>>
       ELSE /\ last' = Reply("order_detail", "ok")
            /\ chat' = IF OffersRequestCode(orders[oid])
                         THEN chat \cup {<<"request_code", oid>>} ELSE chat
            /\ UNCHANGED tx
  /\ UNCHANGED <<orders, wallets, ledger, userStates>>

\* mutation of RequestCode: the rejection counter is kept
RequestCode_keeps(o) ==
  [o EXCEPT !.code_requested = TRUE, !.status = "waiting_code_request"]

\* UPDATE orders SET code_requested = TRUE, wrong_code_attempts = 0, status = 'waiting_code_request'
RequestCode(o) ==
  [o EXCEPT !.code_requested = TRUE, !.wrong_code_attempts = 0,
            !.status = "waiting_code_request"]

\* callback request_code
handleRequestCode(oid) ==
  /\ <<"request_code", oid>> \in chat
  /\ orders' = UpdateOrder(oid, RequestCode(orders[oid]))
  /\ last' = Reply("request_code", "ok")
  /\ UNCHANGED <<wallets, ledger, userStates, chat, tx>>

\* mutation of WrongCode: the rejection counts twice
WrongCode_twice(o) ==
  [o EXCEPT !.wrong_code_attempts = o.wrong_code_attempts + 2, !.code = NULL,
            !.code_requested = FALSE, !.status = "waiting"]

WrongCode(o) ==
  [o EXCEPT !.wrong_code_attempts = o.wrong_code_attempts + 1, !.code = NULL,
            !.code_requested = FALSE, !.status = "waiting"]

\* callback wrong_code
handleWrongCode(oid) ==
  /\ IF ~Exists(oid)
       THEN /\ last' = Reply("wrong_code", "not_found")
            /\ UNCHANGED orders
       ELSE /\ orders[oid].wrong_code_attempts < MaxAttempts
            /\ orders' = UpdateOrder(oid, WrongCode(orders[oid]))
            /\ last' = Reply("wrong_code", "ok")
  /\ UNCHANGED <<wallets, ledger, userStates, chat, tx>>

Complete(o) == [o EXCEPT !.status = "completed"]

\* completeOrder: UPDATE, then SELECT and read order.email of the row
CompleteOrderStep(oid, op) ==
  /\ orders' = UpdateOrder(oid, Complete(orders[oid]))
  /\ last' = Reply(op, IF Exists(oid) THEN "ok" ELSE "error")

\* callback force_complete, the button of the override prompt
completeOrder(oid) ==
  /\ <<"force_complete", oid>> \in chat
  /\ CompleteOrderStep(oid, "force_complete")
  /\ UNCHANGED <<wallets, ledger, userStates, chat, tx>>

\* mutation of NeedsConfirmation: the override prompt is never required
NeedsConfirmation_never(o) == FALSE

\* the code was requested and the customer has not submitted one
NeedsConfirmation(o) == o.code_requested /\ o.code = NULL

\* callback mark_completed
handleMarkCompleted(oid) ==
  /\ IF ~Exists(oid)
       THEN /\ last' = Reply("mark_completed", "not_found")
            /\ UNCHANGED <<orders, chat, tx>>
       ELSE IF orders[oid].status = "completed"
         THEN /\ last' = Reply("mark_completed", "already_completed")
              /\ UNCHANGED <<orders, chat, tx>>
         ELSE IF NeedsConfirmation(orders[oid])
           THEN /\ last' = Reply("mark_completed", "needs_confirmation")
                /\ chat' = chat \cup {<<"force_complete", oid>>}
                /\ UNCHANGED <<orders, tx>>
           ELSE /\ CompleteOrderStep(oid, "mark_completed")
                /\ UNCHANGED <<chat, tx>>
  /\ UNCHANGED <<wallets, ledger, userStates>>

\* callback order_ready; the success answer reads callbackQuery, a name only the
\* dispatcher declares: the handler ends normally or in its catch block after
\* the UPDATE, depending on whether that name is in scope
handleOrderReady(oid) ==
  /\ IF ~Exists(oid)
       THEN /\ last' = Reply("order_ready", "not_found")
            /\ UNCHANGED orders
       ELSE IF orders[oid].code = NULL
         THEN /\ last' = Reply("order_ready", "no_code")
              /\ UNCHANGED orders
         ELSE /\ orders' = UpdateOrder(oid, Complete(orders[oid]))
              /\ \E res \in {"ok", "error"} : last' = Reply("order_ready", res)
  /\ UNCHANGED <<wallets, ledger, userStates, chat, tx>>

Cancel(o) == [o EXCEPT !.status = "canceled"]

\* callback confirm_cancel_order
handleConfirmCancelOrder(oid) ==
  /\ orders' = UpdateOrder(oid, Cancel(orders[oid]))
  /\ last' = Reply("confirm_cancel_order", IF Exists(oid) THEN "ok" ELSE "error")
  /\ UNCHANGED <<wallets, ledger, userStates, chat, tx>>

\* POST /api/order/:orderId/cancel
ApiCancelOrder(oid) ==
  /\ orders' = UpdateOrder(oid, Cancel(orders[oid]))
  /\ last' = Reply("api_cancel", "ok")
  /\ UNCHANGED <<wallets, ledger, userStates, chat, tx>>

----------------------------------------------------------------------------
(* Refund grant *)

GrantOrder(a, o) == [o EXCEPT !.status = "manyback", !.refund_amount = Amount(a)]

\* UPDATE wallets SET frozen_balance = frozen_balance + a, after the lazy INSERT
Freeze(w, u, a) == [EnsureWallet(w, u) EXCEPT ![u].frozen_balance = @ + a]

RefundEntry(u, a, oid) == Entry(u, "refund", a, oid, 0, 0)

\* callback process_refund: shows the confirmation prompt unless the order is
\* already manyback; writes nothing
handleProcessRefund(oid) ==
  /\ last' = Reply("process_refund",
                   IF ~Exists(oid) THEN "not_found"
                   ELSE IF orders[oid].status = "manyback" THEN "already_refunded"
                   ELSE "ok")
  /\ UNCHANGED <<orders, wallets, ledger, userStates, chat, tx>>

\* callback confirm_refund: opens the amount wizard in userStates[chatId]
handleConfirmRefund(oid) ==
  /\ IF ~Exists(oid)
       THEN /\ last' = Reply("confirm_refund", "not_found")
            /\ UNCHANGED <<userStates, chat, tx>>
       ELSE IF orders[oid].user_id = NoUser
         THEN /\ last' = Reply("confirm_refund", "no_user")
              /\ UNCHANGED <<userStates, chat, tx>>
         ELSE /\ userStates' = [action |-> "process_refund", orderId |-> oid,
                                userId |-> orders[oid].user_id,
                                orderTotal |-> orders[oid].total]
              /\ last' = Reply("confirm_refund", "ok")
              /\ UNCHANGED <<chat, tx>>
  /\ UNCHANGED <<orders, wallets, ledger>>

\* the amount check of the wizard
RefundStepValid(refundAmount, maxAmount) ==
  ~(refundAmount = NoAmount \/ Val(refundAmount) <= 0 \/ Val(refundAmount) > maxAmount)

\* message handler, userStates[chatId].action = process_refund
handleRefundStep(text) ==
  /\ userStates.action = "process_refund"
  /\ LET refundAmount == parseInt(text)
         oid == userStates.orderId
         u == userStates.userId
     IN IF ~RefundStepValid(refundAmount, userStates.orderTotal)
          THEN /\ last' = Reply("refund_step", "invalid_amount")
               /\ UNCHANGED <<orders, wallets, ledger, userStates, chat, tx>>
          ELSE /\ Len(ledger) < MaxLedger
               /\ orders' = UpdateOrder(oid, GrantOrder(Val(refundAmount), orders[oid]))
               /\ wallets' = Freeze(wallets, u, Val(refundAmount))
               /\ ledger' = Append(ledger, RefundEntry(u, Val(refundAmount), oid))
               /\ userStates' = NoState
               /\ last' = Reply("refund_step", "ok")
               /\ UNCHANGED <<chat, tx>>

\* command /cancel: drops the wizard
AdminCancel ==
  /\ userStates.action = "process_refund"
  /\ userStates' = NoState
  /\ last' = Reply("admin_cancel", "ok")
  /\ UNCHANGED <<orders, wallets, ledger, chat, tx>>

\* POST /api/orders/refund
ApiOrdersRefund(oid, amount) ==
  IF ~Exists(oid)
    THEN /\ last' = Reply("api_orders_refund", "not_found")
         /\ UNCHANGED <<orders, wallets, ledger, userStates, chat, tx>>
    ELSE IF orders[oid].user_id = NoUser
      THEN /\ last' = Reply("api_orders_refund", "no_user")
           /\ UNCHANGED <<orders, wallets, ledger, userStates, chat, tx>>
      ELSE /\ Len(ledger) < MaxLedger
           /\ wallets' = Freeze(wallets, orders[oid].user_id, amount)
           /\ ledger' = Append(ledger, RefundEntry(orders[oid].user_id, amount, oid))
           /\ orders' = UpdateOrder(oid, GrantOrder(amount, orders[oid]))
           /\ last' = Reply("api_orders_refund", "ok")
           /\ UNCHANGED <<userStates, chat, tx>>

\* the amount check of POST /api/order/:orderId/refund
ApiRefundValid(amount, total) == ~(amount <= 0 \/ amount > total)

\* POST /api/order/:orderId/refund
ApiOrderRefund(oid, amount) ==
  /\ IF ~Exists(oid)
       THEN /\ last' = Reply("api_order_refund", "not_found")
            /\ UNCHANGED orders
       ELSE IF ~ApiRefundValid(amount, orders[oid].total)
         THEN /\ last' = Reply("api_order_refund", "invalid_amount")
              /\ UNCHANGED orders
         ELSE /\ orders' = UpdateOrder(oid, GrantOrder(amount, orders[oid]))
              /\ last' = Reply("api_order_refund", "ok")
  /\ UNCHANGED <<wallets, ledger, userStates, chat, tx>>

----------------------------------------------------------------------------
(* Refund reversal *)

ReverseOrder(o) == [o EXCEPT !.status = "completed", !.refund_amount = NoAmount]

\* UPDATE wallets SET available_balance = available_balance - a WHERE user_id = u
\* (an order without user matches no wallet row)
Debit(w, u, a) ==
  IF u = NoUser THEN w
  ELSE [EnsureWallet(w, u) EXCEPT ![u].available_balance = @ - a]

\* wallet.available_balance || 0 of the row locked FOR UPDATE
CurrentBalance(u) == IF HasWallet(u) THEN wallets[u].available_balance ELSE 0

WithdrawEntry(u, a, c, oid) ==
  Entry(u, "withdraw", 0 - a, oid, Min(a, c), Max(0, a - c))

DebtEntry(u, a, c, oid) ==
  Entry(u, "debt", 0 - (a - c), oid, 0, a - c)

\* the ledger rows a reversal of refund a at balance c inserts
ReversalEntries(u, a, c, oid) ==
  IF a > c THEN <<WithdrawEntry(u, a, c, oid), DebtEntry(u, a, c, oid)>>
  ELSE <<WithdrawEntry(u, a, c, oid)>>

\* mutation of HasRefund: any order that carries a refund_amount is selected
HasRefund_any(oid) == Exists(oid) /\ orders[oid].refund_amount # NoAmount

\* SELECT ... FROM orders WHERE order_id = oid AND status = 'manyback' FOR UPDATE
HasRefund(oid) == Exists(oid) /\ orders[oid].status = "manyback"

\* callback confirm_cancel_refund
handleConfirmCancelRefund(oid) ==
  IF ~HasRefund(oid)
    THEN /\ last' = Reply("confirm_cancel_refund", "no_refund")
         /\ UNCHANGED <<orders, wallets, ledger, userStates, chat, tx>>
    ELSE LET a == Val(orders[oid].refund_amount)
             u == orders[oid].user_id
             c == CurrentBalance(u)
             rows == ReversalEntries(u, a, c, oid)
         IN /\ Len(ledger) + Len(rows) <= MaxLedger
            /\ wallets' = Debit(wallets, u, a)
            /\ orders' = UpdateOrder(oid, ReverseOrder(orders[oid]))
            /\ ledger' = ledger \o rows
            /\ last' = Reply("confirm_cancel_refund", IF a > c THEN "ok_with_debt" ELSE "ok")
            /\ UNCHANGED <<userStates, chat, tx>>

\* the statements of the reversal that can throw, in program order: the four
\* writes of the transaction, COMMIT, and the three chat calls after it
ReversalFaults ==
  {"debit", "order_update", "withdraw_entry", "debt_entry", "commit",
   "edit_message", "notify_user", "answer_callback"}

StepNo(f) ==
  CASE f = "debit" -> 1
    [] f = "order_update" -> 2
    [] f = "withdraw_entry" -> 3
    [] f = "debt_entry" -> 4
    [] f = "commit" -> 5
    [] f = "edit_message" -> 6
    [] f = "notify_user" -> 7
    [] f = "answer_callback" -> 8

\* COMMIT has succeeded when a later statement throws
Committed(fault) == StepNo(fault) > StepNo("commit")

\* mutation of Autocommit: the order UPDATE runs on the pool, outside the transaction
Autocommit_order(step) == step = "order_update"

\* whether a write runs outside BEGIN..COMMIT; every write of the handler uses client
Autocommit(step) == FALSE

\* a write survives when it ran before the fault and was committed, or was never
\* part of the transaction the catch block rolls back
Kept(step, fault) ==
  StepNo(step) < StepNo(fault) /\ (Committed(fault) \/ Autocommit(step))

\* callback confirm_cancel_refund when statement fault throws
handleConfirmCancelRefundFails(oid, fault) ==
  /\ HasRefund(oid)
  /\ LET a == Val(orders[oid].refund_amount)
         u == orders[oid].user_id
         c == CurrentBalance(u)
     IN /\ fault = "debt_entry" => a > c
        /\ Len(ledger) + Len(ReversalEntries(u, a, c, oid)) <= MaxLedger
        /\ wallets' = IF Kept("debit", fault) THEN Debit(wallets, u, a) ELSE wallets
        /\ orders' = IF Kept("order_update", fault)
                       THEN UpdateOrder(oid, ReverseOrder(orders[oid])) ELSE orders
        /\ ledger' = ledger
             \o (IF Kept("withdraw_entry", fault) THEN <<WithdrawEntry(u, a, c, oid)>> ELSE <<>>)
             \o (IF a > c /\ Kept("debt_entry", fault) THEN <<DebtEntry(u, a, c, oid)>> ELSE <<>>)
        /\ last' = IF fault = "notify_user"
                     THEN [op |-> "confirm_cancel_refund",
                           res |-> IF a > c THEN "ok_with_debt" ELSE "ok",
                           fault |-> fault]
                     ELSE Failure("confirm_cancel_refund", fault)
        /\ UNCHANGED <<userStates, chat, tx>>

----------------------------------------------------------------------------
(* Operator deposit with automatic debt repayment *)

\* indices of the user's outstanding debt rows, in creation order
DebtRows(l, u) == {i \in 1..Len(l) : l[i].user_id = u /\ l[i].type = "debt"}

RECURSIVE SumDebt(_, _, _)
\* SELECT SUM(ABS(amount)) ... WHERE user_id = u AND type = 'debt', over rows i..Len(l)
SumDebt(l, u, i) ==
  IF i > Len(l) THEN 0
  ELSE (IF l[i].user_id = u /\ l[i].type = "debt" THEN Abs(l[i].amount) ELSE 0)
       + SumDebt(l, u, i + 1)

TotalDebt(l, u) == SumDebt(l, u, 1)

\* mutation of PayAmount: the whole remaining deposit goes to the first debt row
PayAmount_all(debtAmount, remainingAmount) == remainingAmount

\* the share of the remaining deposit one debt row receives
PayAmount(debtAmount, remainingAmount) == Min(debtAmount, remainingAmount)

\* the two UPDATEs of one debt row: amount and paid, then the retag when fully paid
PayDebtRow(row, payAmount) ==
  [row EXCEPT !.amount = row.amount + payAmount,
              !.paid = row.paid + payAmount,
              !.type = IF payAmount >= Abs(row.amount) THEN "debt_paid" ELSE row.type]

RECURSIVE RepayWalk(_, _, _, _)
\* the loop over debtTransactions.rows from row i on; yields the ledger and remainingAmount
RepayWalk(l, u, i, remainingAmount) ==
  IF i > Len(l) THEN [ledger |-> l, remaining |-> remainingAmount]
  ELSE IF l[i].user_id = u /\ l[i].type = "debt" /\ remainingAmount > 0
    THEN LET payAmount == PayAmount(Abs(l[i].amount), remainingAmount)
         IN RepayWalk([l EXCEPT ![i] = PayDebtRow(l[i], payAmount)], u, i + 1,
                      remainingAmount - payAmount)
    ELSE RepayWalk(l, u, i + 1, remainingAmount)

\* UPDATE wallets SET available_balance = available_balance + a
Credit(w, u, a) == [EnsureWallet(w, u) EXCEPT ![u].available_balance = @ + a]

DebtPaymentEntry(u, debtPaid) == Entry(u, "debt_payment", 0 - debtPaid, NULL, 0, 0)
DepositEntry(u, a) == Entry(u, "deposit", a, NULL, 0, 0)

\* mutation of DepositEntries: both rows are written whatever their amounts
DepositEntries_always(u, debtPaid, remainingAmount) ==
  <<DebtPaymentEntry(u, debtPaid), DepositEntry(u, remainingAmount)>>

\* the rows the deposit appends: debt_payment when debt was paid, deposit for the rest
DepositEntries(u, debtPaid, remainingAmount) ==
  (IF debtPaid > 0 THEN <<DebtPaymentEntry(u, debtPaid)>> ELSE <<>>)
  \o (IF remainingAmount > 0 THEN <<DepositEntry(u, remainingAmount)>> ELSE <<>>)

\* command /addbalance <userId> <amount>
AddBalance(uid, amount) ==
  IF amount <= 0 \/ amount > MaxAddBalance
    THEN /\ last' = Reply("addbalance", "invalid_amount")
         /\ UNCHANGED <<orders, wallets, ledger, userStates, chat, tx>>
    ELSE IF uid \notin Users
      THEN /\ last' = Reply("addbalance", "not_found")
           /\ UNCHANGED <<orders, wallets, ledger, userStates, chat, tx>>
      ELSE LET walk == IF TotalDebt(ledger, uid) > 0
                         THEN RepayWalk(ledger, uid, 1, amount)
                         ELSE [ledger |-> ledger, remaining |-> amount]
               debtPaid == amount - walk.remaining
               rows == DepositEntries(uid, debtPaid, walk.remaining)
           IN /\ Len(ledger) <= MaxLedger
              /\ ledger' = walk.ledger \o rows
              /\ wallets' = IF walk.remaining > 0
                              THEN Credit(wallets, uid, walk.remaining)
                              ELSE EnsureWallet(wallets, uid)
              /\ last' = Reply("addbalance", "ok")
              /\ UNCHANGED <<orders, userStates, chat, tx>>

----------------------------------------------------------------------------
(* Exchange of frozen funds *)

\* the two wallet UPDATEs of the exchange
Swap(w, u, amount, rate) ==
  [w EXCEPT ![u].frozen_balance = @ - amount,
            ![u].available_balance = @ + amount * rate]

SwapEntries(u, amount, rate) ==
  <<Entry(u, "withdraw", 0 - amount, NULL, 0, 0),
    Entry(u, "deposit", amount * rate, NULL, amount, 0)>>

\* the guard of the exchange
SwapRejected(frozen, amount) == frozen < amount

\* POST /api/exchange/swap
ExchangeSwap(uid, amount, rate) ==
  IF uid \notin Users /\ ~HasWallet(uid)
    THEN /\ last' = Reply("swap", "error")
         /\ UNCHANGED <<orders, wallets, ledger, userStates, chat, tx>>
    ELSE IF SwapRejected(EnsureWallet(wallets, uid)[uid].frozen_balance, amount)
      THEN /\ last' = Reply("swap", "insufficient_frozen")
           /\ UNCHANGED <<orders, wallets, ledger, userStates, chat, tx>>
      ELSE /\ Len(ledger) + 2 <= MaxLedger
           /\ wallets' = Swap(EnsureWallet(wallets, uid), uid, amount, rate)
           /\ ledger' = ledger \o SwapEntries(uid, amount, rate)
           /\ last' = Reply("swap", "ok")
           /\ UNCHANGED <<orders, userStates, chat, tx>>

\* GET /api/wallet/:userId: the lazy wallet INSERT, then the two SELECTs
GetWallet(uid) ==
  /\ IF uid \notin Users
       THEN /\ last' = Reply("get_wallet", "not_found")
            /\ UNCHANGED wallets
       ELSE /\ wallets' = EnsureWallet(wallets, uid)
            /\ last' = Reply("get_wallet", "ok")
  /\ UNCHANGED <<orders, ledger, userStates, chat, tx>>

----------------------------------------------------------------------------
(* Concurrent refund transactions: every statement that locks a row is a step; *)
(* the writes of a transaction become visible to the others at COMMIT          *)

\* the tables whose row the statements of a transaction lock, in program order
LockOrder(op) ==
  CASE op = "refund_step" -> <<"orders", "wallets">>
    [] op = "api_orders_refund" -> <<"wallets", "orders">>
    [] op = "confirm_cancel_refund" -> <<"orders", "wallets">>
    [] OTHER -> <<>>

RefundTxs == {"refund_step", "api_orders_refund", "confirm_cancel_refund"}

\* the row the i-th locking statement of transaction t locks
Row(t, i) ==
  IF LockOrder(tx[t].op)[i] = "orders" THEN <<"orders", tx[t].oid>>
  ELSE <<"wallets", tx[t].uid>>

\* row locks are held until COMMIT or ROLLBACK
Held(t) == {Row(t, i) : i \in 1..tx[t].pc}

HasNext(t) == tx[t].pc < Len(LockOrder(tx[t].op))

\* mutation of RowFree: the statement takes no row lock and waits for none
RowFree_unlocked(t, row) == TRUE

\* no other transaction holds the lock of the row
RowFree(t, row) == \A u \in TxIds \ {t} : row \notin Held(u)

\* t's next statement needs a row lock that u holds
WaitsFor(t, u) == t # u /\ HasNext(t) /\ Row(t, tx[t].pc + 1) \in Held(u)

Deadlocked(t, u) == WaitsFor(t, u) /\ WaitsFor(u, t)

\* ledger rows a transaction inserts at most
RowsOf(op) == IF op = "confirm_cancel_refund" THEN 2 ELSE IF op \in RefundTxs THEN 1 ELSE 0

RECURSIVE SumRows(_)
SumRows(T) ==
  IF T = {} THEN 0
  ELSE LET t == CHOOSE x \in T : TRUE IN RowsOf(tx[t].op) + SumRows(T \ {t})

\* BEGIN of the three handlers that write an order row and a wallet row
BeginTx(t, op, oid, amount) ==
  /\ tx[t] = NoTx
  /\ Len(ledger) + SumRows(TxIds) + RowsOf(op) <= MaxLedger
  /\ CASE op = "refund_step" ->
            /\ userStates.action = "process_refund"
            /\ RefundStepValid(Amount(amount), userStates.orderTotal)
            /\ tx' = [tx EXCEPT ![t] = [NoTx EXCEPT !.op = op, !.oid = userStates.orderId,
                                                    !.uid = userStates.userId,
                                                    !.amount = amount]]
       [] op = "api_orders_refund" ->
            /\ Exists(oid)
            /\ orders[oid].user_id # NoUser
            /\ tx' = [tx EXCEPT ![t] = [NoTx EXCEPT !.op = op, !.oid = oid,
                                                    !.uid = orders[oid].user_id,
                                                    !.amount = amount]]
       [] op = "confirm_cancel_refund" ->
            /\ tx' = [tx EXCEPT ![t] = [NoTx EXCEPT !.op = op, !.oid = oid,
                                                    !.uid = IF Exists(oid) THEN orders[oid].user_id
                                                            ELSE NoUser]]
  /\ last' = Reply(op, "begin")
  /\ UNCHANGED <<orders, wallets, ledger, userStates, chat>>

\* the next row-locking statement of t: it waits while another transaction
\* holds the row; the reversal's SELECT ... AND status = 'manyback' FOR UPDATE
\* that matches no committed row returns at once and the handler rolls back;
\* the row it returns gives the reversal its refundAmount and userId
LockRow(t) ==
  /\ HasNext(t)
  /\ IF tx[t].op = "confirm_cancel_refund" /\ tx[t].pc = 0 /\ ~HasRefund(tx[t].oid)
       THEN /\ tx' = [tx EXCEPT ![t] = NoTx]
            /\ last' = Reply(tx[t].op, "no_refund")
       ELSE /\ RowFree(t, Row(t, tx[t].pc + 1))
            /\ tx' = [tx EXCEPT ![t].pc = @ + 1,
                                ![t].amount =
                                  IF tx[t].op = "confirm_cancel_refund" /\ tx[t].pc = 0
                                    THEN Val(orders[tx[t].oid].refund_amount) ELSE @,
                                ![t].uid =
                                  IF tx[t].op = "confirm_cancel_refund" /\ tx[t].pc = 0
                                    THEN orders[tx[t].oid].user_id ELSE @]
            /\ last' = Reply(tx[t].op, "locked")
  /\ UNCHANGED <<orders, wallets, ledger, userStates, chat>>

\* the remaining statements and COMMIT
CommitTx(t) ==
  /\ tx[t].op \in RefundTxs
  /\ ~HasNext(t)
  /\ LET oid == tx[t].oid
         u == tx[t].uid
     IN IF tx[t].op = "confirm_cancel_refund"
          THEN LET a == tx[t].amount
                   c == CurrentBalance(u)
               IN /\ wallets' = Debit(wallets, u, a)
                  /\ orders' = UpdateOrder(oid, ReverseOrder(orders[oid]))
                  /\ ledger' = ledger \o ReversalEntries(u, a, c, oid)
                  /\ last' = Reply(tx[t].op, IF a > c THEN "ok_with_debt" ELSE "ok")
                  /\ UNCHANGED userStates
          ELSE /\ orders' = UpdateOrder(oid, GrantOrder(tx[t].amount, orders[oid]))
               /\ wallets' = Freeze(wallets, u, tx[t].amount)
               /\ ledger' = Append(ledger, RefundEntry(u, tx[t].amount, oid))
               /\ last' = Reply(tx[t].op, "ok")
               /\ userStates' = IF tx[t].op = "refund_step" THEN NoState ELSE userStates
  /\ tx' = [tx EXCEPT ![t] = NoTx]
  /\ UNCHANGED chat

\* POST /api/order/:orderId/refund beside open transactions: its UPDATE waits
\* while a transaction holds the order row
ApiOrderRefundTx(oid, amount) ==
  /\ \A t \in TxIds : <<"orders", oid>> \notin Held(t)
  /\ ApiOrderRefund(oid, amount)

\* the database aborts one transaction of a lock cycle; its handler's catch
\* block runs ROLLBACK
DeadlockAbort(t, u) ==
  /\ Deadlocked(t, u)
  /\ tx' = [tx EXCEPT ![t] = NoTx]
  /\ last' = Failure(tx[t].op, "deadlock")
  /\ UNCHANGED <<orders, wallets, ledger, userStates, chat>>

----------------------------------------------------------------------------
(* Concurrent operator deposits: the SELECTs of /addbalance read committed   *)
(* rows without locking them; each UPDATE of a debt row locks it until COMMIT *)

RECURSIVE SeenFrom(_, _, _)
\* debtTransactions.rows: <<id, Math.abs(amount)>> of the user's rows of type debt
SeenFrom(l, u, i) ==
  IF i > Len(l) THEN <<>>
  ELSE (IF l[i].user_id = u /\ l[i].type = "debt" THEN <<<<i, Abs(l[i].amount)>>>> ELSE <<>>)
       \o SeenFrom(l, u, i + 1)

RECURSIVE Pays(_, _)
\* payAmount of every row the loop updates, computed from the rows as read
Pays(seen, remainingAmount) ==
  IF seen = <<>> \/ remainingAmount <= 0 THEN <<>>
  ELSE LET payAmount == PayAmount(seen[1][2], remainingAmount)
       IN <<payAmount>> \o Pays(Tail(seen), remainingAmount - payAmount)

RECURSIVE SumSeq(_)
SumSeq(q) == IF q = <<>> THEN 0 ELSE q[1] + SumSeq(Tail(q))

\* the two UPDATEs of one debt row on its current committed version; the retag
\* compares payAmount with the amount the SELECT returned
PayRowAs(row, payAmount, debtAmount) ==
  [row EXCEPT !.amount = @ + payAmount,
              !.paid = @ + payAmount,
              !.type = IF payAmount >= debtAmount THEN "debt_paid" ELSE @]

RECURSIVE ApplyPays(_, _, _, _)
ApplyPays(l, seen, pays, j) ==
  IF j > Len(pays) THEN l
  ELSE ApplyPays([l EXCEPT ![seen[j][1]] = PayRowAs(l[seen[j][1]], pays[j], seen[j][2])],
                 seen, pays, j + 1)

\* the ledger rows an open deposit will insert
DepositRows(t) ==
  IF tx[t].op = "addbalance"
    THEN LET debtPaid == SumSeq(Pays(tx[t].seen, tx[t].amount))
         IN Len(DepositEntries(tx[t].uid, debtPaid, tx[t].amount - debtPaid))
    ELSE 0

RECURSIVE SumDepositRows(_)
SumDepositRows(T) ==
  IF T = {} THEN 0
  ELSE LET t == CHOOSE x \in T : TRUE IN DepositRows(t) + SumDepositRows(T \ {t})

\* debt rows an open deposit has updated and keeps locked
DebtLocks(t) ==
  IF tx[t].op = "addbalance" THEN {tx[t].seen[i][1] : i \in 1..tx[t].pc} ELSE {}

\* /addbalance of a valid amount for an existing user, up to the second SELECT;
\* the lazy wallet INSERT waits for an uncommitted INSERT of the same user_id
BeginDeposit(t, uid, amount) ==
  /\ tx[t] = NoTx
  /\ amount > 0 /\ amount <= MaxAddBalance
  /\ uid \in Users
  /\ HasWallet(uid) \/ \A u \in TxIds : ~(tx[u].op = "addbalance" /\ tx[u].uid = uid)
  /\ LET seen == IF TotalDebt(ledger, uid) > 0 THEN SeenFrom(ledger, uid, 1) ELSE <<>>
         debtPaid == SumSeq(Pays(seen, amount))
     IN /\ Len(ledger) + SumDepositRows(TxIds)
             + Len(DepositEntries(uid, debtPaid, amount - debtPaid)) <= MaxLedger
        /\ tx' = [tx EXCEPT ![t] = [NoTx EXCEPT !.op = "addbalance", !.uid = uid,
                                                !.amount = amount, !.seen = seen]]
  /\ last' = Reply("addbalance", "begin")
  /\ UNCHANGED <<orders, wallets, ledger, userStates, chat>>

\* one pass of the loop: the UPDATEs of the next debt row, which wait while
\* another transaction holds the row
UpdateDebtRow(t) ==
  /\ tx[t].op = "addbalance"
  /\ tx[t].pc < Len(Pays(tx[t].seen, tx[t].amount))
  /\ \A u \in TxIds \ {t} : tx[t].seen[tx[t].pc + 1][1] \notin DebtLocks(u)
  /\ tx' = [tx EXCEPT ![t].pc = @ + 1]
  /\ last' = Reply("addbalance", "row_updated")
  /\ UNCHANGED <<orders, wallets, ledger, userStates, chat>>

\* the INSERTs, the wallet UPDATE and COMMIT
CommitDeposit(t) ==
  /\ tx[t].op = "addbalance"
  /\ tx[t].pc = Len(Pays(tx[t].seen, tx[t].amount))
  /\ LET pays == Pays(tx[t].seen, tx[t].amount)
         debtPaid == SumSeq(pays)
         remainingAmount == tx[t].amount - debtPaid
     IN /\ ledger' = ApplyPays(ledger, tx[t].seen, pays, 1)
                       \o DepositEntries(tx[t].uid, debtPaid, remainingAmount)
        /\ wallets' = IF remainingAmount > 0
                        THEN Credit(wallets, tx[t].uid, remainingAmount)
                        ELSE EnsureWallet(wallets, tx[t].uid)
  /\ tx' = [tx EXCEPT ![t] = NoTx]
  /\ last' = Reply("addbalance", "ok")
  /\ UNCHANGED <<orders, userStates, chat>>

----------------------------------------------------------------------------
(* Code submission and code rejection as two statements each: the SELECT of *)
(* the order and, after an await, the UPDATE; both run on the pool, without *)
(* a transaction                                                            *)

CodeOps == {"verify_code", "wrong_code"}

\* the stage GET /api/order-stage/:orderId derives from the order row
OrderStage(o) ==
  LET hasEmail == o.email # NULL
      hasCode == o.code # NULL
  IN IF o.status = "manyback" THEN "refund_processed"
     ELSE IF ~hasEmail /\ o.status \in {"new", "pending", "confirmed"} THEN "email_required"
     ELSE IF hasEmail /\ ~o.code_requested /\ o.status = "waiting_code_request"
       THEN "waiting_code_request"
     ELSE IF o.code_requested /\ ~hasCode
       THEN (IF o.wrong_code_attempts >= LockoutAttempts THEN "support_needed"
             ELSE "code_required")
     ELSE IF hasCode /\ o.status = "waiting" THEN "waiting_execution"
     ELSE IF o.status = "completed" THEN "completed"
     ELSE IF o.status = "canceled" THEN "canceled"
     ELSE "unknown"

\* GET /api/order-stage/:orderId
GetOrderStage(oid) ==
  /\ last' = Reply("order_stage", IF Exists(oid) THEN OrderStage(orders[oid]) ELSE "not_found")
  /\ UNCHANGED <<orders, wallets, ledger, userStates, chat, tx>>

\* the SELECT of verify-code and of handleWrongCode on an existing order; the
\* rejection is started from a wrong_code button of a code notification
ReadAttempts(t, op, oid, c) ==
  /\ tx[t] = NoTx
  /\ Exists(oid)
  /\ orders[oid].wrong_code_attempts < MaxAttempts
  /\ op = "wrong_code" => <<"wrong_code", oid>> \in chat
  /\ IF op = "verify_code" /\ Lockout(orders[oid])
       THEN /\ last' = Reply(op, "support_needed")
            /\ UNCHANGED tx
       ELSE /\ tx' = [tx EXCEPT ![t] = [NoTx EXCEPT !.op = op, !.pc = 1, !.oid = oid,
                                                    !.amount = orders[oid].wrong_code_attempts,
                                                    !.seen = <<c>>]]
            /\ last' = Reply(op, "read")
  /\ UNCHANGED <<orders, wallets, ledger, userStates, chat>>

\* the UPDATE of verify-code and its notification with the two buttons
WriteCode(t) ==
  /\ tx[t].op = "verify_code"
  /\ orders' = UpdateOrder(tx[t].oid, SetCode(tx[t].seen[1], orders[tx[t].oid]))
  /\ chat' = chat \cup {<<"order_ready", tx[t].oid>>, <<"wrong_code", tx[t].oid>>}
  /\ tx' = [tx EXCEPT ![t] = NoTx]
  /\ last' = Reply("verify_code", "waiting")
  /\ UNCHANGED <<wallets, ledger, userStates>>

\* the row handleWrongCode writes from the counter it read
WrongCodeFrom(currentAttempts, o) ==
  [o EXCEPT !.wrong_code_attempts = currentAttempts + 1, !.code = NULL,
            !.code_requested = FALSE, !.status = "waiting"]

\* the UPDATE of handleWrongCode
WriteRejection(t) ==
  /\ tx[t].op = "wrong_code"
  /\ orders' = UpdateOrder(tx[t].oid, WrongCodeFrom(tx[t].amount, orders[tx[t].oid]))
  /\ tx' = [tx EXCEPT ![t] = NoTx]
  /\ last' = Reply("wrong_code", "ok")
  /\ UNCHANGED <<wallets, ledger, userStates, chat>>

----------------------------------------------------------------------------
(* Order lifecycle: customer endpoints and operator code-exchange, completion *)
(* and cancellation handlers, with the order-only refund endpoint and the    *)
(* refund reversal                                                           *)
Next ==
  \/ \E oid \in OrderIds, uid \in Users \cup {NoUser} : CreateOrder(oid, uid)
  \/ \E oid \in OrderIds, e \in Emails : SaveEmail(oid, e)
  \/ \E oid \in OrderIds, c \in Codes : VerifyCode(oid, c)
  \/ \E oid \in OrderIds, c \in Codes : VerifyCodeNotifyFails(oid, c)
  \/ \E oid \in OrderIds : showOrderDetails(oid)
  \/ \E oid \in OrderIds : handleRequestCode(oid)
  \/ \E oid \in OrderIds : handleWrongCode(oid)
  \/ \E oid \in OrderIds : handleMarkCompleted(oid)
  \/ \E oid \in OrderIds : completeOrder(oid)
  \/ \E oid \in OrderIds : handleOrderReady(oid)
  \/ \E oid \in OrderIds : handleConfirmCancelOrder(oid)
  \/ \E oid \in OrderIds : ApiCancelOrder(oid)
  \/ \E oid \in OrderIds, amount \in RefundInputs : ApiOrderRefund(oid, amount)
  \/ \E oid \in OrderIds : handleConfirmCancelRefund(oid)

Spec == Init /\ [][Next]_vars

(* Payment: gateway callbacks arriving at any point of the code exchange, of a *)
(* cancellation and of a refund with its reversal                             *)
NextPayment ==
  \/ \E oid \in OrderIds, uid \in Users : CreateOrder(oid, uid)
  \/ \E body \in WebhookBodies : BileeWebhook(body)
  \/ \E oid \in OrderIds, c \in Codes : VerifyCode(oid, c)
  \/ \E oid \in OrderIds : handleOrderReady(oid)
  \/ \E oid \in OrderIds : handleConfirmCancelOrder(oid)
  \/ \E oid \in OrderIds, amount \in RefundInputs : ApiOrderRefund(oid, amount)
  \/ \E oid \in OrderIds : handleConfirmCancelRefund(oid)

SpecPayment == Init /\ [][NextPayment]_vars

(* Wallet ledger: every refund grant entry point, reversal, operator deposit *)
(* and exchange                                                             *)
NextLedger ==
  \/ \E oid \in OrderIds, uid \in Users \cup {NoUser} : CreateOrder(oid, uid)
  \/ \E oid \in OrderIds : handleProcessRefund(oid)
  \/ \E oid \in OrderIds : handleConfirmRefund(oid)
  \/ \E text \in Texts : handleRefundStep(text)
  \/ AdminCancel
  \/ \E oid \in OrderIds, amount \in RefundInputs : ApiOrdersRefund(oid, amount)
  \/ \E oid \in OrderIds, amount \in RefundInputs : ApiOrderRefund(oid, amount)
  \/ \E oid \in OrderIds : handleConfirmCancelRefund(oid)
  \/ \E uid \in UserIdInputs, amount \in DepositInputs : AddBalance(uid, amount)
  \/ \E uid \in UserIdInputs, amount \in SwapInputs, rate \in RateInputs : ExchangeSwap(uid, amount, rate)

SpecLedger == Init /\ [][NextLedger]_vars

(* Debt settlement: refunds granted on the order, reversed against the wallet, *)
(* and operator deposits repaying the debt                                     *)
NextDebt ==
  \/ \E oid \in OrderIds, uid \in Users : CreateOrder(oid, uid)
  \/ \E oid \in OrderIds, amount \in RefundInputs : ApiOrderRefund(oid, amount)
  \/ \E oid \in OrderIds : handleConfirmCancelRefund(oid)
  \/ \E oid \in OrderIds, fault \in ReversalFaults : handleConfirmCancelRefundFails(oid, fault)
  \/ \E uid \in UserIdInputs, amount \in DepositInputs : AddBalance(uid, amount)

SpecDebt == Init /\ [][NextDebt]_vars

----------------------------------------------------------------------------
(* Refund grants and reversals as concurrent database transactions *)
NextLocks ==
  \/ \E oid \in OrderIds, uid \in Users : CreateOrder(oid, uid)
  \/ \E oid \in OrderIds : handleConfirmRefund(oid)
  \/ \E oid \in OrderIds, amount \in 1..OrderTotal : ApiOrderRefundTx(oid, amount)
  \/ \E t \in TxIds, op \in RefundTxs, oid \in OrderIds, amount \in 1..OrderTotal :
       BeginTx(t, op, oid, amount)
  \/ \E t \in TxIds : LockRow(t)
  \/ \E t \in TxIds : CommitTx(t)
  \/ \E t, u \in TxIds : DeadlockAbort(t, u)

----------------------------------------------------------------------------
(* Wallet endpoints of the customer: query and exchange, with the handlers *)
(* that fill the wallet                                                     *)
NextWallet ==
  \/ \E oid \in OrderIds, uid \in Users : CreateOrder(oid, uid)
  \/ \E oid \in OrderIds, amount \in RefundInputs : ApiOrdersRefund(oid, amount)
  \/ \E uid \in UserIdInputs, amount \in DepositInputs : AddBalance(uid, amount)
  \/ \E uid \in UserIdInputs : GetWallet(uid)
  \/ \E uid \in UserIdInputs, amount \in SwapInputs, rate \in RateInputs : ExchangeSwap(uid, amount, rate)

SpecWallet == Init /\ [][NextWallet]_vars

----------------------------------------------------------------------------
(* Refunds granted through the operator's wizard and reversed, with deposits *)
(* and without any exchange                                                  *)
NextRefunds ==
  \/ \E oid \in OrderIds, uid \in Users : CreateOrder(oid, uid)
  \/ \E oid \in OrderIds : handleConfirmRefund(oid)
  \/ \E text \in Texts : handleRefundStep(text)
  \/ AdminCancel
  \/ \E oid \in OrderIds : handleConfirmCancelRefund(oid)
  \/ \E uid \in UserIdInputs, amount \in DepositInputs : AddBalance(uid, amount)

SpecRefunds == Init /\ [][NextRefunds]_vars

SpecLocks == Init /\ [][NextLocks]_vars

----------------------------------------------------------------------------
(* The code exchange with overlapping handlers *)
NextCodes ==
  \/ \E oid \in OrderIds, uid \in Users : CreateOrder(oid, uid)
  \/ \E oid \in OrderIds, e \in Emails : SaveEmail(oid, e)
  \/ \E oid \in OrderIds : showOrderDetails(oid)
  \/ \E oid \in OrderIds : handleRequestCode(oid)
  \/ \E t \in TxIds, op \in CodeOps, oid \in OrderIds, c \in Codes : ReadAttempts(t, op, oid, c)
  \/ \E t \in TxIds : WriteCode(t)
  \/ \E t \in TxIds : WriteRejection(t)
  \/ \E oid \in OrderIds : GetOrderStage(oid)

SpecCodes == Init /\ [][NextCodes]_vars

----------------------------------------------------------------------------
(* Operator deposits as concurrent database transactions, with the handlers *)
(* that create debt                                                          *)
NextDeposits ==
  \/ \E oid \in OrderIds, uid \in Users : CreateOrder(oid, uid)
  \/ \E oid \in OrderIds, amount \in 1..OrderTotal : ApiOrderRefund(oid, amount)
  \/ \E oid \in OrderIds : handleConfirmCancelRefund(oid)
  \/ \E t \in TxIds, uid \in Users, amount \in 1..MaxDeposit : BeginDeposit(t, uid, amount)
  \/ \E t \in TxIds : UpdateDebtRow(t)
  \/ \E t \in TxIds : CommitDeposit(t)

SpecDeposits == Init /\ [][NextDeposits]_vars

----------------------------------------------------------------------------
(* Properties *)

GrantOps == {"refund_step", "api_orders_refund", "api_order_refund"}
Granted == last'.op \in GrantOps /\ last'.res = "ok"
Reversed == last'.op = "confirm_cancel_refund" /\ last'.res \in {"ok", "ok_with_debt"}
Frozen(u) == IF HasWallet(u) THEN wallets[u].frozen_balance ELSE 0
OutstandingDebts(u) == DebtRows(ledger, u)

\* C1: no step changes an order's status from canceled to completed or from
\* completed to canceled
C1_NoFlipBetweenCanceledAndCompleted ==
  [][\A oid \in DOMAIN orders :
       /\ ~(orders[oid].status = "canceled" /\ orders'[oid].status = "completed")
       /\ ~(orders[oid].status = "completed" /\ orders'[oid].status = "canceled")]_vars

\* C2: every committed refund grant of amount A on an order owned by an account sets the order to manyback and, in
\* the same step, adds A to the owner's frozen_balance and appends one ledger row
\* of type refund with amount +A linked to the order
C2_GrantCreditsWalletAndLedger ==
  [][\A oid \in DOMAIN orders :
       (Granted /\ orders[oid].user_id # NoUser) =>
         LET u == orders'[oid].user_id
             a == Val(orders'[oid].refund_amount)
         IN /\ orders'[oid].status = "manyback"
            /\ u \in DOMAIN wallets'
            /\ wallets'[u].frozen_balance = Frozen(u) + a
            /\ Len(ledger') = Len(ledger) + 1
            /\ ledger'[Len(ledger')].type = "refund"
            /\ ledger'[Len(ledger')].amount = a
            /\ ledger'[Len(ledger')].order_id = oid
            /\ ledger'[Len(ledger')].user_id = u]_vars

\* C3: a reversal of refund A at available balance C debits exactly min(A, C), and
\* does not bring a non-negative available_balance below 0
C3_ReversalDebitsMin ==
  [][\A oid \in DOMAIN orders :
       (Reversed /\ orders[oid].status = "manyback" /\ orders[oid].user_id # NoUser) =>
         LET u == orders[oid].user_id
             a == Val(orders[oid].refund_amount)
             c == CurrentBalance(u)
         IN /\ wallets'[u].available_balance = c - Min(a, c)
            /\ (c >= 0 => wallets'[u].available_balance >= 0)]_vars

\* C4: a reversal of a granted refund A leaves the order completed with no
\* refund_amount, and the spent amount of its withdraw row and the magnitude of
\* its debt row (0 when there is none) are both >= 0 and sum to A
C4_ReversalSplitsRefund ==
  [][\A oid \in DOMAIN orders :
       (Reversed /\ orders[oid].status = "manyback") =>
         LET a == Val(orders[oid].refund_amount)
             n == Len(ledger)
             spent == ledger'[n + 1].spent
             debt == IF Len(ledger') = n + 2 THEN Abs(ledger'[n + 2].amount) ELSE 0
         IN /\ orders'[oid].status = "completed"
            /\ orders'[oid].refund_amount = NoAmount
            /\ ledger'[n + 1].type = "withdraw"
            /\ spent >= 0
            /\ debt >= 0
            /\ spent + debt = a]_vars

\* C5: an operator deposit of X to an account with outstanding debt D: when
\* X <= D the debt decreases by exactly X and available_balance is unchanged;
\* when X > D the debt becomes 0 and available_balance increases by X - D
C5_DepositRepaysDebtFirst ==
  [][\A uid \in Users, x \in DepositInputs :
       (x > 0 /\ AddBalance(uid, x)) =>
         LET d == TotalDebt(ledger, uid)
         IN /\ uid \in DOMAIN wallets'
            /\ IF x <= d
                 THEN /\ TotalDebt(ledger', uid) = d - x
                      /\ wallets'[uid].available_balance = CurrentBalance(uid)
                 ELSE /\ TotalDebt(ledger', uid) = 0
                      /\ wallets'[uid].available_balance = CurrentBalance(uid) + (x - d)]_vars

\* C5 witness: a deposit larger than the debt has repaid a debt row and credited the rest
C5_Witness ==
  /\ last = Reply("addbalance", "ok")
  /\ Len(ledger) >= 2
  /\ ledger[Len(ledger)].type = "deposit"
  /\ ledger[Len(ledger) - 1].type = "debt_payment"
  /\ \E i \in 1..Len(ledger) : ledger[i].type = "debt_paid"

\* C6: available_balance is negative only while the account has an outstanding
\* ledger row of type debt
C6_NegativeOnlyWithDebt ==
  \A u \in DOMAIN wallets :
    wallets[u].available_balance < 0 => OutstandingDebts(u) # {}

\* C7: frozen_balance of every wallet is >= 0
C7_FrozenNonNegative ==
  \A u \in DOMAIN wallets : wallets[u].frozen_balance >= 0

\* C8: once wrong_code_attempts is 2 or more, a code submission answers
\* support_needed and leaves the order unchanged, whatever the code
C8_LockoutRejectsSubmission ==
  [][\A oid \in DOMAIN orders :
       (orders[oid].wrong_code_attempts >= 2 /\ last'.op = "verify_code") =>
         /\ last'.res = "support_needed"
         /\ orders'[oid] = orders[oid]]_vars

\* C8 witness: a submission was answered support_needed after two rejections
C8_Witness ==
  /\ last = Reply("verify_code", "support_needed")
  /\ \E oid \in DOMAIN orders :
       /\ orders[oid].wrong_code_attempts = 2
       /\ orders[oid].email # NULL
       /\ orders[oid].code = NULL
       /\ orders[oid].status = "waiting"

C10_GrantAmountInRange ==
  /\ \A oid \in DOMAIN orders :
       orders[oid].refund_amount # NoAmount =>
         (1 <= Val(orders[oid].refund_amount)
            /\ Val(orders[oid].refund_amount) <= orders[oid].total)
  /\ \A i \in 1..Len(ledger) :
       ledger[i].type = "refund" => (1 <= ledger[i].amount /\ ledger[i].amount <= OrderTotal)

\* C11: a grant request on an order that is already manyback is rejected: it is
\* not answered as granted, and the order, the wallets and the ledger stay as
\* they were
C11_NoGrantOnManyback ==
  [][\A oid \in DOMAIN orders :
       (orders[oid].status = "manyback" /\ last'.op \in GrantOps) =>
         /\ last'.res # "ok"
         /\ orders'[oid] = orders[oid]
         /\ wallets' = wallets
         /\ ledger' = ledger]_vars

\* C12: a refund reversal acts only on an order whose status is manyback: on any
\* other status it answers that no refund was found and changes neither the
\* order, the wallets nor the ledger; on manyback it sets status completed and
\* refund_amount null
C12_ReversalOnlyOnManyback ==
  [][\A oid \in DOMAIN orders :
       last'.op = "confirm_cancel_refund" =>
         IF orders[oid].status # "manyback"
           THEN /\ last'.res = "no_refund"
                /\ orders' = orders
                /\ wallets' = wallets
                /\ ledger' = ledger
           ELSE /\ last'.res \in {"ok", "ok_with_debt"}
                /\ orders'[oid].status = "completed"
                /\ orders'[oid].refund_amount = NoAmount]_vars

\* C12 witness: a reversal was refused on a canceled order
C12_Witness ==
  /\ last = Reply("confirm_cancel_refund", "no_refund")
  /\ \E oid \in DOMAIN orders :
       orders[oid].status = "canceled" /\ orders[oid].refund_amount # NoAmount

\* C13: a reversal whose statement throws before COMMIT has succeeded leaves the
\* orders, the wallets and the ledger exactly as they were
C13_FailedReversalRollsBack ==
  [][(last'.op = "confirm_cancel_refund"
        /\ last'.fault \in {"debit", "order_update", "withdraw_entry", "debt_entry", "commit"})
       => (orders' = orders /\ wallets' = wallets /\ ledger' = ledger)]_vars

\* C13 witness: the debt row insert, the last write of the transaction, threw and
\* the order still carries its refund
C13_Witness ==
  /\ last = Failure("confirm_cancel_refund", "debt_entry")
  /\ \E oid \in DOMAIN orders :
       orders[oid].status = "manyback" /\ orders[oid].refund_amount # NoAmount

\* C14: whenever a refund grant, a refund reversal or a code submission reports a
\* failure to its caller, the orders, the wallets and the ledger are unchanged
C14_FailureMeansUnchanged ==
  [][(last'.op \in GrantOps \cup {"confirm_cancel_refund", "verify_code"}
        /\ last'.res = "error")
       => (orders' = orders /\ wallets' = wallets /\ ledger' = ledger)]_vars

\* a callback with status confirmed for order oid was accepted in this step
PaymentConfirmed(oid) ==
  /\ last'.op = "bilee_webhook"
  /\ last'.res = "ok"
  /\ last'.body.order_id = oid
  /\ last'.body.status = "confirmed"

\* C15: payment_status becomes confirmed only in a callback step whose body names
\* the order, has status confirmed and carries the digest recomputed from its
\* fields and the shop password; once confirmed it stays confirmed
C15_ConfirmedOnlyByVerifiedCallback ==
  [][\A oid \in DOMAIN orders :
       /\ (orders[oid].payment_status # "confirmed" /\ orders'[oid].payment_status = "confirmed")
            => (PaymentConfirmed(oid)
                  /\ last'.body.signature = generateSignature(last'.body, BILEE_PASSWORD))
       /\ orders[oid].payment_status = "confirmed"
            => orders'[oid].payment_status = "confirmed"]_vars

\* C15 witness: a paid order was canceled afterwards and is still confirmed
C15_Witness ==
  \E oid \in DOMAIN orders :
    orders[oid].payment_status = "confirmed" /\ orders[oid].status = "canceled"

\* C16: an accepted payment confirmation sets payment_status to confirmed and
\* leaves every other field of the order, its status included, as it was
C16_ConfirmationKeepsStatus ==
  [][\A oid \in DOMAIN orders :
       PaymentConfirmed(oid) =>
         orders'[oid] = [orders[oid] EXCEPT !.payment_status = "confirmed"]]_vars

\* C16 witness: a payment was confirmed on an order waiting for its code check
C16_Witness ==
  /\ last.op = "bilee_webhook"
  /\ last.res = "ok"
  /\ last.was = "pending"
  /\ \E oid \in DOMAIN orders :
       /\ last.body.order_id = oid
       /\ orders[oid].payment_status = "confirmed"
       /\ orders[oid].status = "waiting"
       /\ orders[oid].code # NULL

\* C17: an accepted payment confirmation for an order whose payment is already
\* confirmed changes no order, wallet or ledger entry
C17_RedeliveryIsNoOp ==
  [][\A oid \in DOMAIN orders :
       (PaymentConfirmed(oid) /\ orders[oid].payment_status = "confirmed")
         => (orders' = orders /\ wallets' = wallets /\ ledger' = ledger)]_vars

\* C17 witness: a confirmation was delivered again after the customer had
\* submitted a code
C17_Witness ==
  /\ last.op = "bilee_webhook"
  /\ last.res = "ok"
  /\ last.was = "confirmed"
  /\ last.body.status = "confirmed"
  /\ \E oid \in DOMAIN orders :
       /\ last.body.order_id = oid
       /\ orders[oid].status = "waiting"
       /\ orders[oid].code # NULL

\* C18: the operator's confirm-code command on an order that carries a code and is
\* already completed changes no order and is answered as already done
C18_ReconfirmIsAlreadyDone ==
  [][\A oid \in DOMAIN orders :
       (orders[oid].status = "completed" /\ orders[oid].code # NULL
          /\ last'.op = "order_ready") =>
         /\ last'.res = "already_completed"
         /\ orders' = orders]_vars

\* C19: an operator cancel, from the chat or from the cancel endpoint, leaves an
\* order whose status is manyback as it was
C19_CancelKeepsManyback ==
  [][\A oid \in DOMAIN orders :
       (orders[oid].status = "manyback" /\ last'.op \in {"confirm_cancel_order", "api_cancel"})
         => orders'[oid] = orders[oid]]_vars

\* C20: the operator's confirm-code command changes an order only when the order
\* has a code and its status is waiting, and then sets status completed
C20_ConfirmCodeOnlyFromWaiting ==
  [][\A oid \in DOMAIN orders :
       last'.op = "order_ready" =>
         IF orders[oid].code # NULL /\ orders[oid].status = "waiting"
           THEN orders'[oid] = [orders[oid] EXCEPT !.status = "completed"]
           ELSE orders'[oid] = orders[oid]]_vars

\* C21: a code submission changes the order only when code_requested is true and
\* wrong_code_attempts is below 2; it then stores the code and sets status waiting
C21_SubmissionNeedsRequest ==
  [][\A oid \in DOMAIN orders :
       last'.op = "verify_code" =>
         \/ orders'[oid] = orders[oid]
         \/ /\ orders[oid].code_requested
            /\ orders[oid].wrong_code_attempts < 2
            /\ orders'[oid].status = "waiting"
            /\ orders'[oid].code # NULL]_vars

\* C22: an operator request-code changes the order only when the order has an
\* email and its status is not completed; it then sets status
\* waiting_code_request, code_requested true and wrong_code_attempts 0
C22_RequestCodeNeedsEmailAndOpenOrder ==
  [][\A oid \in DOMAIN orders :
       last'.op = "request_code" =>
         IF orders[oid].email # NULL /\ orders[oid].status # "completed"
           THEN orders'[oid] = [orders[oid] EXCEPT !.status = "waiting_code_request",
                                                   !.code_requested = TRUE,
                                                   !.wrong_code_attempts = 0]
           ELSE orders'[oid] = orders[oid]]_vars

\* C23: mark-completed leaves an order as it is when the order is already
\* completed, and when its code was requested and not yet submitted; in the
\* second case it asks for confirmation, and the order is completed by the
\* force-complete button that this prompt has drawn
C23_MarkCompletedAsksBeforeOverride ==
  [][\A oid \in DOMAIN orders :
       /\ (last'.op = "mark_completed" /\ orders[oid].status = "completed")
            => (orders' = orders /\ last'.res = "already_completed")
       /\ (last'.op = "mark_completed" /\ orders[oid].status # "completed"
              /\ orders[oid].code_requested /\ orders[oid].code = NULL)
            => (orders' = orders /\ last'.res = "needs_confirmation"
                  /\ <<"force_complete", oid>> \in chat')
       /\ last'.op = "force_complete"
            => (<<"force_complete", oid>> \in chat /\ orders'[oid].status = "completed")]_vars

\* C23 witness: the override was confirmed on an order whose requested code never
\* arrived
C23_Witness ==
  /\ last = Reply("force_complete", "ok")
  /\ \E oid \in DOMAIN orders :
       /\ orders[oid].status = "completed"
       /\ orders[oid].code_requested
       /\ orders[oid].code = NULL


\* C24: a transaction that writes an order row and a wallet row holds the order
\* row's lock whenever it holds the wallet row's lock, and no two such
\* transactions ever wait for each other
C24_OrderRowBeforeWalletRow ==
  /\ \A t \in TxIds :
       (tx[t].op \in RefundTxs /\ <<"wallets", tx[t].uid>> \in Held(t))
         => <<"orders", tx[t].oid>> \in Held(t)
  /\ \A t, u \in TxIds : ~Deadlocked(t, u)

\* the second conjunct of C24 alone: no lock cycle
C24_NoLockCycle == \A t, u \in TxIds : ~Deadlocked(t, u)

\* C25: with deposits to one account running concurrently, no debt entry is
\* paid more than the debt it was created with, and no debt entry's amount is
\* positive (a unit applied beyond the debt is neither owed nor credited)
C25_ConcurrentDepositsRespectDebt ==
  \A i \in 1..Len(ledger) :
    ledger[i].type \in {"debt", "debt_paid"} =>
      /\ ledger[i].paid <= ledger[i].remaining
      /\ ledger[i].amount <= 0

\* debt of user u in the rows older than row i
OlderDebt(l, u, i) == TotalDebt(l, u) - SumDebt(l, u, i)

\* C26: a deposit of x gives every debt row of the account, oldest first,
\* min(what the row still owes, what is left of x after the older rows), so a
\* newer row is reduced only when every older one is repaid in full; a row
\* repaid in full becomes debt_paid, and no row of type debt ever has amount >= 0
C26_RepaymentWalksOldestFirst ==
  /\ [][\A uid \in Users, x \in DepositInputs :
          (x > 0 /\ AddBalance(uid, x)) =>
            \A i \in DebtRows(ledger, uid) :
              LET owed == Abs(ledger[i].amount)
                  left == Max(0, x - OlderDebt(ledger, uid, i))
                  pay == Min(owed, left)
              IN /\ ledger'[i].amount = ledger[i].amount + pay
                 /\ ledger'[i].paid = ledger[i].paid + pay
                 /\ ledger'[i].type = IF pay = owed THEN "debt_paid" ELSE "debt"
                 /\ pay > 0 => \A j \in DebtRows(ledger, uid) :
                                 j < i => ledger'[j].type = "debt_paid"]_vars
  /\ [](\A i \in 1..Len(ledger) : ledger[i].type = "debt" => ledger[i].amount < 0)

\* C26 with deposits that do not overlap: one deposit has repaid an older debt
\* row in full and reduced a newer one
C26_SequentialWalk ==
  /\ last = Reply("addbalance", "ok")
  /\ Cardinality({k \in 1..Len(ledger) : ledger[k].type = "debt_payment"}) = 1
  /\ \E i, j \in 1..Len(ledger) :
       /\ i < j
       /\ ledger[i].type = "debt_paid"
       /\ ledger[j].type \in {"debt", "debt_paid"}
       /\ ledger[j].paid > 0

\* the rows a step has appended to the ledger
Appended == SubSeq(ledger', Len(ledger) + 1, Len(ledger'))

\* C27: a deposit of x appends at most one debt_payment row and at most one
\* deposit row and nothing else; the debt_payment row exists exactly when debt
\* was repaid and carries the amount repaid, the deposit row exists exactly when
\* available_balance was credited and carries the amount credited, and the two
\* amounts add up to x
C27_DepositSplitsIntoTwoEntries ==
  [][\A uid \in Users, x \in DepositInputs :
       (x > 0 /\ AddBalance(uid, x)) =>
         LET applied == TotalDebt(ledger, uid) - TotalDebt(ledger', uid)
             credited == wallets'[uid].available_balance - CurrentBalance(uid)
             pay == {k \in 1..Len(Appended) : Appended[k].type = "debt_payment"}
             dep == {k \in 1..Len(Appended) : Appended[k].type = "deposit"}
         IN /\ applied >= 0 /\ credited >= 0
            /\ applied + credited = x
            /\ Len(Appended) = Cardinality(pay) + Cardinality(dep)
            /\ Cardinality(pay) = (IF applied > 0 THEN 1 ELSE 0)
            /\ Cardinality(dep) = (IF credited > 0 THEN 1 ELSE 0)
            /\ \A k \in pay : Appended[k].amount = 0 - applied /\ Appended[k].user_id = uid
            /\ \A k \in dep : Appended[k].amount = credited /\ Appended[k].user_id = uid]_vars

\* C27 witness: a deposit of 2 against a debt of 1 has written a debt_payment
\* row of -1 and a deposit row of 1
C27_Witness ==
  /\ last = Reply("addbalance", "ok")
  /\ Len(ledger) >= 2
  /\ ledger[Len(ledger) - 1].type = "debt_payment"
  /\ ledger[Len(ledger) - 1].amount = 0 - 1
  /\ ledger[Len(ledger)].type = "deposit"
  /\ ledger[Len(ledger)].amount = 1

\* C28: no step removes a ledger row; a row that a step changes in place was
\* of type debt before the step, stays debt or becomes debt_paid, keeps its
\* order_id and its account, and its amount moves toward zero by what is added to paid
C28_LedgerAppendOnly ==
  [][/\ Len(ledger') >= Len(ledger)
     /\ \A i \in 1..Len(ledger) :
          \/ ledger'[i] = ledger[i]
          \/ /\ ledger[i].type = "debt"
             /\ ledger'[i].type \in {"debt", "debt_paid"}
             /\ ledger'[i].order_id = ledger[i].order_id
             /\ ledger'[i].user_id = ledger[i].user_id
             /\ ledger'[i].amount > ledger[i].amount
             /\ ledger'[i].amount <= 0
             /\ ledger'[i].paid - ledger[i].paid = ledger'[i].amount - ledger[i].amount]_vars

\* C29: the wallet query leaves the wallet rows, every balance, the ledger and
\* the orders as they were, for any user id
C29_WalletQueryReadsOnly ==
  [][last'.op = "get_wallet" =>
       /\ wallets' = wallets
       /\ ledger' = ledger
       /\ orders' = orders]_vars

\* C30: an exchange of amount a at rate r is answered ok only when
\* 0 < a <= frozen_balance, and then frozen_balance has decreased by a and
\* available_balance has increased by a * r in the same step; an exchange with
\* a > frozen_balance is not answered ok and changes no wallet and no ledger row
C30_SwapOnlyWithinFrozen ==
  [][\A uid \in UserIdInputs, a \in SwapInputs, r \in RateInputs :
       ExchangeSwap(uid, a, r) =>
         LET f == Frozen(uid)
             c == CurrentBalance(uid)
         IN /\ last'.res = "ok" =>
                 /\ 0 < a /\ a <= f
                 /\ wallets'[uid].frozen_balance = f - a
                 /\ wallets'[uid].available_balance = c + a * r
            /\ a > f => (last'.res # "ok" /\ wallets' = wallets /\ ledger' = ledger)]_vars

\* the operations that act on an existing order
OrderOps ==
  {"save_email", "verify_code", "request_code", "order_ready", "wrong_code",
   "mark_completed", "force_complete", "confirm_cancel_order", "api_cancel",
   "refund_step", "api_orders_refund", "api_order_refund", "confirm_cancel_refund"}

\* C31: while no order exists, every operation on an order is answered with a
\* failure, not with success, and changes no order, no wallet and no ledger row
C31_UnknownOrderIsRejected ==
  [][(DOMAIN orders = {} /\ last'.op \in OrderOps) =>
       /\ last'.res \notin {"ok", "waiting", "ok_with_debt"}
       /\ orders' = orders
       /\ wallets' = wallets
       /\ ledger' = ledger]_vars

\* C32: an email submission or a code submission of the customer leaves the
\* status of a completed or canceled order as it was
C32_TerminalStatusSurvivesCustomer ==
  [][\A oid \in DOMAIN orders :
       (orders[oid].status \in {"completed", "canceled"}
          /\ last'.op \in {"save_email", "verify_code"})
         => orders'[oid].status = orders[oid].status]_vars

\* rows of type withdraw that reversals of order oid have written
Withdrawals(l, oid) == {i \in 1..Len(l) : l[i].type = "withdraw" /\ l[i].order_id = oid}

\* C33: with reversals of the same order open at the same time or following
\* each other, a reversal commits only on an order that is manyback when it
\* commits: it debits the refund amount once, appends one withdraw row and at
\* most one debt row and makes the order completed; a reversal that finds no
\* manyback order changes nothing
C33_DoubleReversalDebitsOnce ==
  [][last'.op = "confirm_cancel_refund" =>
       \A oid \in DOMAIN orders :
         IF last'.res \in {"ok", "ok_with_debt"}
           THEN /\ orders[oid].status = "manyback"
                /\ orders'[oid].status = "completed"
                /\ wallets'[orders[oid].user_id].available_balance
                     = CurrentBalance(orders[oid].user_id) - Val(orders[oid].refund_amount)
                /\ Cardinality(Withdrawals(ledger', oid))
                     = Cardinality(Withdrawals(ledger, oid)) + 1
                /\ Len(ledger') <= Len(ledger) + 2
           ELSE /\ orders' = orders
                /\ wallets' = wallets
                /\ ledger' = ledger]_vars

\* C33 witness: a reversal has found no manyback order because another
\* reversal of the same order, which wrote the only withdraw row, came first
C33_Witness ==
  /\ last = Reply("confirm_cancel_refund", "no_refund")
  /\ \E oid \in DOMAIN orders :
       /\ orders[oid].status = "completed"
       /\ Cardinality(Withdrawals(ledger, oid)) = 1

\* C34: in every state an order that holds a code has wrong_code_attempts < 2
C34_CodeOnlyBelowLockout ==
  \A oid \in DOMAIN orders :
    orders[oid].code # NULL => orders[oid].wrong_code_attempts < LockoutAttempts

\* C35: every rejection that writes raises wrong_code_attempts of its order by
\* one over the value the order had just before the write, so two rejections
\* raise it by two
C35_RejectionsAllCount ==
  [][(last'.op = "wrong_code" /\ last'.res = "ok") =>
       \A oid \in DOMAIN orders :
         orders'[oid].wrong_code_attempts = orders[oid].wrong_code_attempts + 1]_vars

\* C36: where every grant has frozen its amount and nothing is exchanged, the
\* reversal of a refund of A takes A out of frozen_balance again, so that
\* frozen_balance is back at its value before the grant
C36_ReversalUnfreezes ==
  [][\A oid \in DOMAIN orders :
       (Reversed /\ orders[oid].status = "manyback") =>
         wallets'[orders[oid].user_id].frozen_balance
           = Frozen(orders[oid].user_id) - Val(orders[oid].refund_amount)]_vars

\* C37: the debt row a reversal of refund A appends has magnitude at most A,
\* whatever available_balance was before the reversal
C37_DebtAtMostRefund ==
  [][\A oid \in DOMAIN orders :
       (Reversed /\ orders[oid].status = "manyback") =>
         \A i \in (Len(ledger) + 1)..Len(ledger') :
           ledger'[i].type = "debt" => Abs(ledger'[i].amount) <= Val(orders[oid].refund_amount)]_vars

\* C38: for an order with an email, no stored code, wrong_code_attempts >= 2
\* and a status other than completed, canceled and manyback, the order-stage
\* query answers support_needed
C38_LockedOutRoutedToSupport ==
  [][\A oid \in DOMAIN orders :
       (/\ last'.op = "order_stage"
        /\ orders[oid].email # NULL
        /\ orders[oid].code = NULL
        /\ orders[oid].wrong_code_attempts >= LockoutAttempts
        /\ orders[oid].status \notin {"completed", "canceled", "manyback"})
         => last'.res = "support_needed"]_vars

\* C39: in every state an order with code_requested = TRUE has wrong_code_attempts = 0
C39_RequestedMeansNoRejections ==
  \A oid \in DOMAIN orders :
    orders[oid].code_requested => orders[oid].wrong_code_attempts = 0

\* C39 witness: the code was requested for an order that had a rejection
\* before (a second rejection, which read the counter at 1, has not written
\* yet): the request has put the counter back to 0
C39_Witness ==
  /\ last = Reply("request_code", "ok")
  /\ \E oid \in DOMAIN orders :
       /\ orders[oid].code_requested
       /\ orders[oid].wrong_code_attempts = 0
       /\ \E t \in TxIds :
            tx[t].op = "wrong_code" /\ tx[t].oid = oid /\ tx[t].amount = 1
====
